---- MODULE Spec2Model ----
(***************************************************************************)
(* Model of src/server.js: an Express server with three POST handlers      *)
(* (/llama, /deepseek, /flux) in front of the Together inference client.   *)
(*                                                                         *)
(* A JavaScript string is a sequence of one-character strings.  A value    *)
(* that may be a string, null or undefined is a record                     *)
(* [isString, text].  An async function is split at its await: the code    *)
(* before the await is one action, the settling of the remote promise is   *)
(* an action of the provider, and the code after the await is one action.  *)
(* The literal Korean messages of the source are written in English.       *)
(***************************************************************************)
EXTENDS Integers, Sequences, FiniteSets, TLC

\* ------------------------------------------------------------------ bounds
\* Number of calls that may be in flight at once.
NumCalls == 2
\* Longest raw text, in pieces, that the provider returns in ShaperSpec.
MaxPieces == 6

Calls == 1..NumCalls

\* ------------------------------------------------------------ text helpers
Min(S) == CHOOSE x \in S : \A y \in S : x <= y
Max(S) == CHOOSE x \in S : \A y \in S : x >= y

OpenTag == <<"<", "t", "h", "i", "n", "k", ">">>
CloseTag == <<"<", "/", "t", "h", "i", "n", "k", ">">>

\* The characters String.prototype.trim() removes, among those the model uses.
WhiteSpace == {" ", "\n", "\t"}

\* s has pat at index i (1-based).
IsAt(s, pat, i) ==
    /\ i >= 1
    /\ i + Len(pat) - 1 <= Len(s)
    /\ SubSeq(s, i, i + Len(pat) - 1) = pat

RECURSIVE Flatten(_)
Flatten(ps) == IF ps = <<>> THEN <<>> ELSE Head(ps) \o Flatten(Tail(ps))

\* A JavaScript value that is a string.
Str(t) == [isString |-> TRUE, text |-> t]
\* null or undefined.
Nullish == [isString |-> FALSE, text |-> <<>>]
\* !v for such a value: undefined, null and "" are falsy.
Falsy(v) == ~v.isString \/ v.text = <<>>

\* ------------------------------------------------------------- constants
AI_MODEL ==
    [LLAMA |-> "meta-llama/Llama-3.3-70B-Instruct-Turbo-Free",
     DEEPSEEK |-> "deepseek-ai/DeepSeek-R1-Distill-Llama-70B-free",
     GUARD |-> "meta-llama/Meta-Llama-Guard-3-8B",
     FLUX |-> "black-forest-labs/FLUX.1-schnell-Free"]

IMAGE_CONFIG == [width |-> 1024, height |-> 1024, n |-> 1]

\* process.env.CHAT_SYSTEM_MESSAGE ?? `...`: read once when the module loads.
CHAT_SYSTEM_MESSAGE == <<"k", "o">>

\* new Error('프롬프트가 필요합니다!'): "a prompt is required"
MsgPromptRequired == "prompt is required"
\* new Error("AI 모델 호출 중 오류가 발생했습니다."): "error while calling the AI model"
MsgModelCallFailed == "error while calling the AI model"
\* "AI 모델 응답 형식이 잘못되었습니다.": "the AI model response format is wrong"
MsgBadFormat == "AI model response format is wrong"
MsgNotImplemented == "Not implemented"
\* The TypeError messages of the runtime.
MsgTypeErrorUrl == "Cannot read properties of undefined (reading 'url')"
MsgTypeErrorMatch == "Cannot read properties of null (reading 'match')"

\* What a function call gives: a value, or a thrown Error with a message.
Returned(v) == [threw |-> FALSE, message |-> "", value |-> v]
Threw(msg) == [threw |-> TRUE, message |-> msg, value |-> Nullish]

\* --------------------------------------------------- getStepsFromModel
getStepsFromModel_Forty(m) ==
    IF m = AI_MODEL.FLUX
    THEN [threw |-> FALSE, message |-> "", steps |-> 40]
    ELSE [threw |-> TRUE, message |-> MsgNotImplemented, steps |-> 0]

getStepsFromModel_Default(m) ==
    [threw |-> FALSE, message |-> "", steps |-> 4]

getStepsFromModel(m) ==
    IF m = AI_MODEL.FLUX
    THEN [threw |-> FALSE, message |-> "", steps |-> 4]
    ELSE [threw |-> TRUE, message |-> MsgNotImplemented, steps |-> 0]

\* ------------------------------------------------------- Response Shaper
\* The "." of the pattern under the s flag: every character.
DotMatches_NoDotAll(ch) == ch # "\n"

DotMatches(ch) == TRUE

\* (.*?)<\/think> from index `from`: the first index of an end tag that only
\* dot-matched characters separate from `from`; 0 when there is none.
LazyEnd(s, from) ==
    LET ends == {j \in from..Len(s) :
                    /\ IsAt(s, CloseTag, j)
                    /\ \A k \in from..(j - 1) : DotMatches(s[k])}
    IN IF ends = {} THEN 0 ELSE Min(ends)

\* (.*) from index `from`: the last index of the longest dot-matched run.
GreedyEnd(s, from) ==
    LET stops == {e \in (from - 1)..Len(s) :
                    /\ \A k \in from..e : DotMatches(s[k])
                    /\ (e = Len(s) \/ ~DotMatches(s[e + 1]))}
    IN Min(stops)

\* The indices at which the pattern's first literal may be tried.
StartIndices_Anchored(s) == {1}

StartIndices(s) == 1..Len(s)

\* answer.match(/<think>(.*?)<\/think>(.*)/s): the leftmost index at which
\* the whole pattern matches, with its two groups; matched = FALSE for null.
regexMatch(s) ==
    LET starts == {i \in StartIndices(s) :
                      /\ IsAt(s, OpenTag, i)
                      /\ LazyEnd(s, i + Len(OpenTag)) # 0}
    IN IF starts = {}
       THEN [matched |-> FALSE, rawThink |-> <<>>, rawSay |-> <<>>]
       ELSE LET i == Min(starts)
                j == LazyEnd(s, i + Len(OpenTag))
                r == j + Len(CloseTag)
            IN [matched |-> TRUE,
                rawThink |-> SubSeq(s, i + Len(OpenTag), j - 1),
                rawSay |-> SubSeq(s, r, GreedyEnd(s, r))]

\* String.prototype.trim()
trim(s) ==
    LET keep == {i \in 1..Len(s) : s[i] \notin WhiteSpace}
    IN IF keep = {} THEN <<>> ELSE SubSeq(s, Min(keep), Max(keep))


\* ------------------------------------------------------------------ state
VARIABLES
    pc,             \* per call: "idle", "awaiting", "settled", "done", "escaped"
    route,          \* per call: the entry point it came in by, "none" before
    req,            \* per call: req.body as the handler received it
    model,          \* per call: the model argument of the adapter call
    imageConfig,    \* the IMAGE_CONFIG object (not frozen)
    chatRequests,   \* every together.chat.completions.create(...) issued
    imageRequests,  \* every together.images.create(...) issued
    remote,         \* per call: how the remote promise settled
    reply,          \* per call: the responses written to res, in order
    ret             \* per call: how a direct createImage call settled

vars == <<pc, route, req, model, imageConfig, chatRequests, imageRequests, remote, reply, ret>>

\* req.body: undefined (nothing parsed), or an object with or without prompt.
BodyUndefined == [present |-> FALSE, hasPrompt |-> FALSE, prompt |-> <<>>]
BodyEmpty == [present |-> TRUE, hasPrompt |-> FALSE, prompt |-> <<>>]
BodyPrompt(t) == [present |-> TRUE, hasPrompt |-> TRUE, prompt |-> t]

\* The prompts callers send: "", "a", "b".
PromptChars == {"a", "b"}
PromptTexts == {<<>>} \cup {<<ch>> : ch \in PromptChars}
Bodies == {BodyUndefined, BodyEmpty} \cup {BodyPrompt(t) : t \in PromptTexts}

NotSettled == [kind |-> "pending", detail |-> "", items |-> <<>>]
Rejected(detail) == [kind |-> "rejected", detail |-> detail, items |-> <<>>]
Fulfilled(items) == [kind |-> "fulfilled", detail |-> "", items |-> items]

\* The detail of a fault raised by the remote call.
UpstreamDetail == "401 Invalid API key provided"

Init ==
    /\ pc = [c \in Calls |-> "idle"]
    /\ route = [c \in Calls |-> "none"]
    /\ req = [c \in Calls |-> BodyUndefined]
    /\ model = [c \in Calls |-> ""]
    /\ imageConfig = IMAGE_CONFIG
    /\ chatRequests = {}
    /\ imageRequests = {}
    /\ remote = [c \in Calls |-> NotSettled]
    /\ reply = [c \in Calls |-> <<>>]
    /\ ret = [c \in Calls |-> <<>>]

\* ------------------------------------------- Inference Client Adapter
NoImageBody ==
    [model |-> "", prompt |-> Nullish, width |-> 0, height |-> 0, n |-> 0, steps |-> 0]

\* createImage up to its await: the request body, or the fault of
\* getStepsFromModel, raised while the body is built.
createImageBegin(m, prompt) ==
    LET s == getStepsFromModel(m)
    IN IF s.threw
       THEN [threw |-> TRUE, message |-> s.message, body |-> NoImageBody]
       ELSE [threw |-> FALSE, message |-> "",
             body |-> [model |-> m, prompt |-> prompt,
                       width |-> imageConfig.width,
                       height |-> imageConfig.height,
                       n |-> imageConfig.n,
                       steps |-> s.steps]]

\* createImage after its await: result.data[0].url
createImageEnd(settled) ==
    IF settled.kind = "rejected" THEN Threw(settled.detail)
    ELSE IF settled.items = <<>> THEN Threw(MsgTypeErrorUrl)
    ELSE Returned(settled.items[1])

NoChatBody ==
    [model |-> "", safety_model |-> "", messages |-> <<>>]

chatWithModelBegin_NoCheck(m, prompt) ==
    [threw |-> FALSE, message |-> "",
     body |-> [model |-> m, safety_model |-> AI_MODEL.GUARD,
               messages |-> <<[role |-> "system", content |-> CHAT_SYSTEM_MESSAGE],
                              [role |-> "user", content |-> prompt.text]>>]]

\* chatWithModel up to its await: the prompt check, then the request body.
chatWithModelBegin(m, prompt) ==
    IF Falsy(prompt)
    THEN [threw |-> TRUE, message |-> MsgPromptRequired, body |-> NoChatBody]
    ELSE [threw |-> FALSE, message |-> "",
          body |-> [model |-> m, safety_model |-> AI_MODEL.GUARD,
                    messages |-> <<[role |-> "system", content |-> CHAT_SYSTEM_MESSAGE],
                                   [role |-> "user", content |-> prompt.text]>>]]

chatWithModelEnd_PassDetail(settled) ==
    IF settled.kind = "rejected" THEN Threw(settled.detail)
    ELSE IF settled.items = <<>> THEN Threw(MsgModelCallFailed)
    ELSE Returned(settled.items[1])

\* chatWithModel after its await, inside its try: a rejected call and the
\* TypeError of result.choices[0].message on no choices both reach the catch.
chatWithModelEnd(settled) ==
    IF settled.kind = "rejected" THEN Threw(MsgModelCallFailed)
    ELSE IF settled.items = <<>> THEN Threw(MsgModelCallFailed)
    ELSE Returned(settled.items[1])

\* ------------------------------------------------------- the provider
\* The raw texts the provider answers a chat prompt p with in Spec.
RouterTexts(p) ==
    { p,
      OpenTag \o <<" ">> \o p \o <<"\n">> \o p \o <<" ">> \o CloseTag \o <<" ">> \o p \o <<" ">>,
      p \o OpenTag \o p \o CloseTag \o p }

ChatOutcomes(p) ==
    {Rejected(UpstreamDetail), Fulfilled(<<>>), Fulfilled(<<Nullish>>)}
    \cup {Fulfilled(<<Str(t)>>) : t \in RouterTexts(p)}
    \cup {Fulfilled(<<Str(p), Str(OpenTag \o CloseTag)>>)}

ImageOutcomes(p) ==
    {Rejected(UpstreamDetail), Fulfilled(<<>>), Fulfilled(<<Str(<<"u">> \o p)>>)}

\* The raw texts of ShaperSpec: every concatenation of at most MaxPieces pieces.
Pieces(p) == {OpenTag, CloseTag, <<" ">>, <<"\n">>, <<"<">>, p}
ShaperTexts(p) ==
    {Flatten(ps) : ps \in UNION {[1..n -> Pieces(p)] : n \in 0..MaxPieces}}
    \cup RouterTexts(p)
ShaperOutcomes(p) ==
    {Rejected(UpstreamDetail), Fulfilled(<<>>), Fulfilled(<<Nullish>>)}
    \cup {Fulfilled(<<Str(t)>>) : t \in ShaperTexts(p)}

\* The chat request a call issued.
ChatRequestOf(c) == CHOOSE r \in chatRequests : r.call = c
ImageRequestOf(c) == CHOOSE r \in imageRequests : r.call = c

\* together.chat.completions.create settles: rejected, or a result whose
\* contents answer the user message of the request.
ChatSettles(c) ==
    /\ pc[c] = "awaiting"
    /\ route[c] \in {"/llama", "/deepseek"}
    /\ \E o \in ChatOutcomes(ChatRequestOf(c).body.messages[2].content) :
          remote' = [remote EXCEPT ![c] = o]
    /\ pc' = [pc EXCEPT ![c] = "settled"]
    /\ UNCHANGED <<route, req, model, imageConfig, chatRequests, imageRequests, reply, ret>>

ShaperChatSettles(c) ==
    /\ pc[c] = "awaiting"
    /\ route[c] = "/deepseek"
    /\ \E o \in ShaperOutcomes(ChatRequestOf(c).body.messages[2].content) :
          remote' = [remote EXCEPT ![c] = o]
    /\ pc' = [pc EXCEPT ![c] = "settled"]
    /\ UNCHANGED <<route, req, model, imageConfig, chatRequests, imageRequests, reply, ret>>

\* together.images.create settles.
ImageSettles(c) ==
    /\ pc[c] = "awaiting"
    /\ route[c] \in {"/flux", "createImage"}
    /\ \E o \in ImageOutcomes(ImageRequestOf(c).body.prompt.text) :
          remote' = [remote EXCEPT ![c] = o]
    /\ pc' = [pc EXCEPT ![c] = "settled"]
    /\ UNCHANGED <<route, req, model, imageConfig, chatRequests, imageRequests, reply, ret>>

\* ------------------------------------------------------ Request Router
ErrorReply(status, msg) ==
    [status |-> status, kind |-> "error", error |-> msg, answer |-> Nullish,
     think |-> <<>>, say |-> <<>>, result |-> Nullish]
AnswerReply(v) ==
    [status |-> 200, kind |-> "answer", error |-> "", answer |-> v,
     think |-> <<>>, say |-> <<>>, result |-> Nullish]
ThinkSayReply(t, s) ==
    [status |-> 200, kind |-> "think_say", error |-> "", answer |-> Nullish,
     think |-> t, say |-> s, result |-> Nullish]
ResultReply(v) ==
    [status |-> 200, kind |-> "result", error |-> "", answer |-> Nullish,
     think |-> <<>>, say |-> <<>>, result |-> v]

\* A prompt kept in one variable of the module, which a later call overwrites.
destructurePrompt_Shared(c, body) ==
    LET later == {d \in Calls : d > c /\ pc[d] # "idle" /\ req[d].hasPrompt}
    IN IF later # {} THEN Str(req[Max(later)].prompt)
       ELSE IF body.hasPrompt THEN Str(body.prompt) ELSE Nullish

\* const { prompt } = req.body, for a body that is an object.
destructurePrompt(c, body) ==
    IF body.hasPrompt THEN Str(body.prompt) ELSE Nullish

\* The settled remote promise a call's await resumes with.
awaited(c) == remote[c]

\* res.status(500).json({ error: error.message }) in the handlers' catch.
CatchStatus(msg) == 500

\* /llama up to the await inside chatWithModel.  The destructuring of
\* req.body stands before the try: on an undefined body its TypeError leaves
\* the handler, and the handler writes no response.
PostLlamaBegin(c, body) ==
    /\ pc[c] = "idle"
    /\ route' = [route EXCEPT ![c] = "/llama"]
    /\ req' = [req EXCEPT ![c] = body]
    /\ IF ~body.present
       THEN /\ pc' = [pc EXCEPT ![c] = "escaped"]
            /\ UNCHANGED <<model, chatRequests, reply>>
       ELSE LET b == chatWithModelBegin(AI_MODEL.LLAMA, destructurePrompt(c, body))
            IN /\ model' = [model EXCEPT ![c] = AI_MODEL.LLAMA]
               /\ IF b.threw
                  THEN /\ reply' = [reply EXCEPT ![c] =
                                      Append(@, ErrorReply(CatchStatus(b.message), b.message))]
                       /\ pc' = [pc EXCEPT ![c] = "done"]
                       /\ UNCHANGED chatRequests
                  ELSE /\ chatRequests' = chatRequests \cup {[call |-> c, body |-> b.body]}
                       /\ pc' = [pc EXCEPT ![c] = "awaiting"]
                       /\ UNCHANGED reply
    /\ UNCHANGED <<imageConfig, imageRequests, remote, ret>>

\* /deepseek up to the await inside chatWithModel.  The destructuring of
\* req.body stands before the try: on an undefined body its TypeError leaves
\* the handler, and the handler writes no response.
PostDeepseekBegin(c, body) ==
    /\ pc[c] = "idle"
    /\ route' = [route EXCEPT ![c] = "/deepseek"]
    /\ req' = [req EXCEPT ![c] = body]
    /\ IF ~body.present
       THEN /\ pc' = [pc EXCEPT ![c] = "escaped"]
            /\ UNCHANGED <<model, chatRequests, reply>>
       ELSE LET b == chatWithModelBegin(AI_MODEL.DEEPSEEK, destructurePrompt(c, body))
            IN /\ model' = [model EXCEPT ![c] = AI_MODEL.DEEPSEEK]
               /\ IF b.threw
                  THEN /\ reply' = [reply EXCEPT ![c] =
                                      Append(@, ErrorReply(CatchStatus(b.message), b.message))]
                       /\ pc' = [pc EXCEPT ![c] = "done"]
                       /\ UNCHANGED chatRequests
                  ELSE /\ chatRequests' = chatRequests \cup {[call |-> c, body |-> b.body]}
                       /\ pc' = [pc EXCEPT ![c] = "awaiting"]
                       /\ UNCHANGED reply
    /\ UNCHANGED <<imageConfig, imageRequests, remote, ret>>

\* /llama after the await.
PostLlamaResume(c) ==
    /\ pc[c] = "settled"
    /\ route[c] = "/llama"
    /\ LET r == chatWithModelEnd(awaited(c))
       IN reply' = [reply EXCEPT ![c] =
                       Append(@, IF r.threw
                                 THEN ErrorReply(CatchStatus(r.message), r.message)
                                 ELSE AnswerReply(r.value))]
    /\ pc' = [pc EXCEPT ![c] = "done"]
    /\ UNCHANGED <<route, req, model, imageConfig, chatRequests, imageRequests, remote, ret>>

\* The reply of /deepseek for an answer, from the match on.
DeepseekShape_NoElse(answer) ==
    LET m == regexMatch(answer.text)
    IN IF ~answer.isString
       THEN ErrorReply(CatchStatus(MsgTypeErrorMatch), MsgTypeErrorMatch)
       ELSE IF m.matched THEN ThinkSayReply(trim(m.rawThink), trim(m.rawSay))
       ELSE ErrorReply(CatchStatus(MsgModelCallFailed), MsgModelCallFailed)

DeepseekShape(answer) ==
    LET m == regexMatch(answer.text)
    IN IF ~answer.isString
       THEN ErrorReply(CatchStatus(MsgTypeErrorMatch), MsgTypeErrorMatch)
       ELSE IF m.matched THEN ThinkSayReply(trim(m.rawThink), trim(m.rawSay))
       ELSE ErrorReply(400, MsgBadFormat)

\* /deepseek after the await.
PostDeepseekResume(c) ==
    /\ pc[c] = "settled"
    /\ route[c] = "/deepseek"
    /\ LET r == chatWithModelEnd(awaited(c))
       IN reply' = [reply EXCEPT ![c] =
                       Append(@, IF r.threw
                                 THEN ErrorReply(CatchStatus(r.message), r.message)
                                 ELSE DeepseekShape(r.value))]
    /\ pc' = [pc EXCEPT ![c] = "done"]
    /\ UNCHANGED <<route, req, model, imageConfig, chatRequests, imageRequests, remote, ret>>

\* /flux up to the await inside createImage.
PostFluxBegin(c, body) ==
    /\ pc[c] = "idle"
    /\ route' = [route EXCEPT ![c] = "/flux"]
    /\ req' = [req EXCEPT ![c] = body]
    /\ IF ~body.present
       THEN /\ pc' = [pc EXCEPT ![c] = "escaped"]
            /\ UNCHANGED <<model, imageRequests, reply>>
       ELSE LET b == createImageBegin(AI_MODEL.FLUX, destructurePrompt(c, body))
            IN /\ model' = [model EXCEPT ![c] = AI_MODEL.FLUX]
               /\ IF b.threw
                  THEN /\ reply' = [reply EXCEPT ![c] =
                                      Append(@, ErrorReply(CatchStatus(b.message), b.message))]
                       /\ pc' = [pc EXCEPT ![c] = "done"]
                       /\ UNCHANGED imageRequests
                  ELSE /\ imageRequests' = imageRequests \cup {[call |-> c, body |-> b.body]}
                       /\ pc' = [pc EXCEPT ![c] = "awaiting"]
                       /\ UNCHANGED reply
    /\ UNCHANGED <<imageConfig, chatRequests, remote, ret>>

\* /flux after the await.
PostFluxResume(c) ==
    /\ pc[c] = "settled"
    /\ route[c] = "/flux"
    /\ LET r == createImageEnd(awaited(c))
       IN reply' = [reply EXCEPT ![c] =
                       Append(@, IF r.threw
                                 THEN ErrorReply(CatchStatus(r.message), r.message)
                                 ELSE ResultReply(r.value))]
    /\ pc' = [pc EXCEPT ![c] = "done"]
    /\ UNCHANGED <<route, req, model, imageConfig, chatRequests, imageRequests, remote, ret>>

\* ------------------------------------------- createImage called directly
\* The commented-out entry of AI_MODEL: a model with no step mapping.
STABLE_DIFFUSION == "stabilityai/stable-diffusion-xl-base-1.0"
Models == {AI_MODEL.LLAMA, AI_MODEL.DEEPSEEK, AI_MODEL.GUARD, AI_MODEL.FLUX, STABLE_DIFFUSION}
PromptValues == {Nullish} \cup {Str(t) : t \in PromptTexts}

\* createImage(model, prompt) up to its await.
CreateImageCall(c, m, prompt) ==
    /\ pc[c] = "idle"
    /\ route' = [route EXCEPT ![c] = "createImage"]
    /\ req' = [req EXCEPT ![c] = [present |-> TRUE, hasPrompt |-> prompt.isString,
                                 prompt |-> prompt.text]]
    /\ model' = [model EXCEPT ![c] = m]
    /\ LET b == createImageBegin(m, prompt)
       IN IF b.threw
          THEN /\ ret' = [ret EXCEPT ![c] = Append(@, Threw(b.message))]
               /\ pc' = [pc EXCEPT ![c] = "done"]
               /\ UNCHANGED imageRequests
          ELSE /\ imageRequests' = imageRequests \cup {[call |-> c, body |-> b.body]}
               /\ pc' = [pc EXCEPT ![c] = "awaiting"]
               /\ UNCHANGED ret
    /\ UNCHANGED <<imageConfig, chatRequests, remote, reply>>

\* createImage after its await.
CreateImageReturn(c) ==
    /\ pc[c] = "settled"
    /\ route[c] = "createImage"
    /\ ret' = [ret EXCEPT ![c] = Append(@, createImageEnd(awaited(c)))]
    /\ pc' = [pc EXCEPT ![c] = "done"]
    /\ UNCHANGED <<route, req, model, imageConfig, chatRequests, imageRequests, remote, reply>>

\* --------------------------------------------------------- specifications
\* The server: any calls of the three routes, interleaved at their awaits.
Next ==
    \/ \E c \in Calls, body \in Bodies : PostLlamaBegin(c, body)
    \/ \E c \in Calls, body \in Bodies : PostDeepseekBegin(c, body)
    \/ \E c \in Calls, body \in Bodies : PostFluxBegin(c, body)
    \/ \E c \in Calls : ChatSettles(c)
    \/ \E c \in Calls : ImageSettles(c)
    \/ \E c \in Calls : PostLlamaResume(c)
    \/ \E c \in Calls : PostDeepseekResume(c)
    \/ \E c \in Calls : PostFluxResume(c)

Spec == Init /\ [][Next]_vars

\* The server when every remote call settles and the event loop runs every
\* continuation that is ready.
FairSpec ==
    /\ Spec
    /\ \A c \in Calls :
          /\ WF_vars(ChatSettles(c))
          /\ WF_vars(ImageSettles(c))
          /\ WF_vars(PostLlamaResume(c))
          /\ WF_vars(PostDeepseekResume(c))
          /\ WF_vars(PostFluxResume(c))

\* The Response Shaper: one /deepseek call, answered by every raw text of
\* at most MaxPieces pieces.
ShaperNext ==
    \/ \E p \in PromptChars : PostDeepseekBegin(1, BodyPrompt(<<p>>))
    \/ ShaperChatSettles(1)
    \/ PostDeepseekResume(1)

ShaperSpec == Init /\ [][ShaperNext]_vars

\* The adapter: createImage called with any model and prompt.
AdapterNext ==
    \/ \E c \in Calls, m \in Models, prompt \in PromptValues :
          CreateImageCall(c, m, prompt)
    \/ \E c \in Calls : ImageSettles(c)
    \/ \E c \in Calls : CreateImageReturn(c)

AdapterSpec == Init /\ [][AdapterNext]_vars

\* ------------------------------------------------------------ properties
ChatRoutes == {"/llama", "/deepseek"}
RouterRoutes == {"/llama", "/deepseek", "/flux"}
Started(c) == pc[c] # "idle"
NoRequestBy(c) ==
    /\ \A r \in chatRequests : r.call # c
    /\ \A r \in imageRequests : r.call # c

\* The raw text a call's chat completion carried, when it carried a string.
HasRawText(c) ==
    /\ remote[c].kind = "fulfilled"
    /\ remote[c].items # <<>>
    /\ remote[c].items[1].isString
RawText(c) == remote[c].items[1].text

\* t is s without its leading and trailing white space.
IsTrimOf(t, s) ==
    /\ t = <<>> \/ (t[1] \notin WhiteSpace /\ t[Len(t)] \notin WhiteSpace)
    /\ \E i \in 1..(Len(s) + 1) :
          /\ SubSeq(s, i, i + Len(t) - 1) = t
          /\ i + Len(t) - 1 <= Len(s)
          /\ \A k \in 1..(i - 1) : s[k] \in WhiteSpace
          /\ \A k \in (i + Len(t))..Len(s) : s[k] \in WhiteSpace

\* The first index, from `from` on, at which s has pat; 0 when there is none.
FirstAt(s, pat, from) ==
    IF \E j \in from..Len(s) : IsAt(s, pat, j)
    THEN Min({j \in from..Len(s) : IsAt(s, pat, j)})
    ELSE 0

\* C1: a chat call (/llama, /deepseek) whose body has no prompt or the empty
\* prompt is answered with the error "prompt is required", and no request
\* to the provider is ever issued for it.
C1_EmptyPromptRejectedBeforeRemote ==
    \A c \in Calls :
        (Started(c) /\ route[c] \in ChatRoutes /\ req[c].present
            /\ (~req[c].hasPrompt \/ req[c].prompt = <<>>))
        => /\ pc[c] = "done"
           /\ Len(reply[c]) = 1
           /\ reply[c][1].kind = "error"
           /\ reply[c][1].error = MsgPromptRequired
           /\ NoRequestBy(c)

C1_Witness ==
    /\ pc[1] = "done" /\ route[1] = "/llama"
    /\ req[1].present /\ req[1].hasPrompt /\ req[1].prompt = <<>>
    /\ pc[2] = "done" /\ route[2] = "/deepseek"
    /\ req[2].present /\ ~req[2].hasPrompt
    /\ reply[1][1].error = MsgPromptRequired
    /\ reply[2][1].error = MsgPromptRequired

\* C2: every error reply of a router operation has the status class of its
\* failure kind: 4xx for a missing or empty prompt and for a format
\* mismatch, 5xx for an upstream failure.
C2_StatusClassMatchesKind ==
    \A c \in Calls :
        (route[c] \in RouterRoutes /\ pc[c] = "done" /\ reply[c] # <<>>
            /\ reply[c][1].kind = "error")
        => IF reply[c][1].error \in {MsgPromptRequired, MsgBadFormat}
           THEN reply[c][1].status \in 400..499
           ELSE reply[c][1].status \in 500..599

\* C3: no fault leaves a handler, a call that has not finished has written
\* no response, and a call that has finished has written exactly one.
C3_EveryCallAnsweredOnce ==
    \A c \in Calls :
        /\ pc[c] # "escaped"
        /\ pc[c] = "done" => Len(reply[c]) = 1
        /\ pc[c] \in {"idle", "awaiting", "settled"} => Len(reply[c]) = 0

\* The part of C3 the handlers keep: a call whose body is an object gets
\* exactly one response once its remote call has settled, whatever the
\* provider returned.
C3_ObjectBodyAnsweredOnce ==
    \A c \in Calls :
        (Started(c) /\ route[c] \in RouterRoutes /\ req[c].present)
        ~> (pc[c] = "done" /\ Len(reply[c]) = 1)

\* C4: when the raw text opens with <think> and has a later </think>,
\* /deepseek replies {think, say}: think is the text between the start tag
\* and the first end tag, trimmed, and say is all text after that end tag,
\* trimmed; line breaks inside either are kept.
C4_WellFormedPrefixShaped ==
    \A c \in Calls :
        (pc[c] = "done" /\ route[c] = "/deepseek" /\ HasRawText(c)
            /\ IsAt(RawText(c), OpenTag, 1)
            /\ FirstAt(RawText(c), CloseTag, Len(OpenTag) + 1) # 0)
        => LET raw == RawText(c)
               j == FirstAt(raw, CloseTag, Len(OpenTag) + 1)
           IN /\ Len(reply[c]) = 1
              /\ reply[c][1].status = 200
              /\ reply[c][1].kind = "think_say"
              /\ IsTrimOf(reply[c][1].think, SubSeq(raw, Len(OpenTag) + 1, j - 1))
              /\ IsTrimOf(reply[c][1].say, SubSeq(raw, j + Len(CloseTag), Len(raw)))

\* "<think> a\na </think> a " gives think = "a\na", say = "a".
C4_Witness ==
    /\ pc[1] = "done" /\ route[1] = "/deepseek" /\ HasRawText(1)
    /\ RawText(1) = OpenTag \o <<" ", "a", "\n", "a", " ">> \o CloseTag \o <<" ", "a", " ">>
    /\ reply[1] = <<ThinkSayReply(<<"a", "\n", "a">>, <<"a">>)>>

\* C5: when the raw text of /deepseek holds no <think> at all, the reply is
\* the 400 format error, once; an upstream failure is answered with another
\* status and another message.
C5_NoTagIsFormatMismatch ==
    \A c \in Calls :
        (pc[c] = "done" /\ route[c] = "/deepseek")
        => /\ (HasRawText(c) /\ FirstAt(RawText(c), OpenTag, 1) = 0)
                => reply[c] = <<ErrorReply(400, MsgBadFormat)>>
           /\ (remote[c].kind = "rejected"
                 \/ (remote[c].kind = "fulfilled" /\ remote[c].items = <<>>))
                => /\ Len(reply[c]) = 1
                   /\ reply[c][1].kind = "error"
                   /\ reply[c][1].status # 400
                   /\ reply[c][1].error # MsgBadFormat

C5_Witness ==
    /\ pc[1] = "done" /\ route[1] = "/deepseek" /\ HasRawText(1)
    /\ RawText(1) = <<"a", " ">> \o CloseTag
    /\ reply[1] = <<ErrorReply(400, MsgBadFormat)>>

\* C6: for a non-empty prompt, /llama replies {answer: content of the first
\* choice} when the provider returned a choice, and otherwise the error
\* "error while calling the AI model"; the reply never carries the detail
\* of the upstream fault or another choice.
C6_AnswerOrGenericError ==
    \A c \in Calls :
        (pc[c] = "done" /\ route[c] = "/llama" /\ req[c].present
            /\ req[c].hasPrompt /\ req[c].prompt # <<>>)
        => /\ Len(reply[c]) = 1
           /\ IF remote[c].kind = "fulfilled" /\ remote[c].items # <<>>
              THEN reply[c][1] = AnswerReply(remote[c].items[1])
              ELSE /\ reply[c][1].kind = "error"
                   /\ reply[c][1].error = MsgModelCallFailed
                   /\ reply[c][1].error # remote[c].detail
                   /\ reply[c][1].answer = Nullish

C6_Witness ==
    /\ pc[1] = "done" /\ route[1] = "/llama" /\ remote[1].kind = "rejected"
    /\ reply[1][1].error = MsgModelCallFailed
    /\ pc[2] = "done" /\ route[2] = "/llama" /\ Len(remote[2].items) = 2
    /\ reply[2][1] = AnswerReply(Str(req[2].prompt))

\* C7: every image request of /flux carries steps 4, width 1024, height
\* 1024, n 1 and the FLUX model, and IMAGE_CONFIG keeps its values.
C7_ImageRequestFixed ==
    /\ imageConfig = [width |-> 1024, height |-> 1024, n |-> 1]
    /\ \A r \in imageRequests :
          /\ r.body.steps = 4
          /\ r.body.width = 1024
          /\ r.body.height = 1024
          /\ r.body.n = 1
          /\ r.body.model = "black-forest-labs/FLUX.1-schnell-Free"
    /\ \A c \in Calls :
          (route[c] = "/flux" /\ pc[c] \in {"awaiting", "settled"})
          => \E r \in imageRequests : r.call = c

C7_Witness ==
    /\ pc[1] = "done" /\ route[1] = "/flux" /\ reply[1][1].kind = "result"
    /\ route[2] = "/flux" /\ pc[2] = "awaiting"
    /\ req[1].prompt # req[2].prompt
    /\ Cardinality(imageRequests) = 2

\* C8: createImage with a model other than FLUX rejects with
\* "Not implemented", and no request to the provider is issued for it.
C8_UnsupportedModelFailsFirst ==
    \A c \in Calls :
        (route[c] = "createImage" /\ model[c] # AI_MODEL.FLUX)
        => /\ pc[c] = "done"
           /\ ret[c] = <<Threw(MsgNotImplemented)>>
           /\ NoRequestBy(c)

C8_Witness ==
    /\ route[1] = "createImage" /\ model[1] = AI_MODEL.LLAMA /\ pc[1] = "done"
    /\ route[2] = "createImage" /\ model[2] = AI_MODEL.FLUX /\ pc[2] = "awaiting"

\* What of a call only that call's steps may change.
CallState(c) ==
    <<pc[c], route[c], req[c], model[c], remote[c], reply[c], ret[c],
      {r \in chatRequests : r.call = c}, {r \in imageRequests : r.call = c}>>

\* The prompt characters a text holds.
PromptCharsIn(t) == {t[i] : i \in 1..Len(t)} \cap PromptChars

\* The prompt characters a reply holds.
ReplyPromptChars(r) ==
    PromptCharsIn(r.answer.text) \cup PromptCharsIn(r.think)
        \cup PromptCharsIn(r.say) \cup PromptCharsIn(r.result.text)

C9_OwnPromptOnly ==
    /\ \A r \in chatRequests :
          r.body.messages[2].content = req[r.call].prompt
    /\ \A r \in imageRequests :
          r.body.prompt = (IF req[r.call].hasPrompt THEN Str(req[r.call].prompt) ELSE Nullish)
    /\ \A c \in Calls :
          /\ Cardinality({r \in chatRequests : r.call = c})
                + Cardinality({r \in imageRequests : r.call = c}) <= 1
          /\ \A i \in 1..Len(reply[c]) :
                ReplyPromptChars(reply[c][i]) \subseteq PromptCharsIn(req[c].prompt)

C9_StepTouchesOneCall ==
    \A c, d \in Calls :
        (c # d /\ CallState(c)' # CallState(c)) => CallState(d)' = CallState(d)

\* C9: with several calls in flight, each request carries the prompt of its
\* own call, each reply holds only what the provider answered to its own
\* request, and every step changes the state of one call only.
C9_CallsDoNotInterfere == [](C9_OwnPromptOnly) /\ [][C9_StepTouchesOneCall]_vars

C9_Witness ==
    /\ route[1] = "/deepseek" /\ route[2] = "/deepseek"
    /\ pc[1] = "done" /\ pc[2] = "done"
    /\ req[1].prompt = <<"b">> /\ req[2].prompt = <<"a">>
    /\ reply[1][1].kind = "think_say" /\ reply[1][1].say = <<"b">>
    /\ reply[2][1].kind = "think_say" /\ reply[2][1].say = <<"a">>

\* C10 as claimed: /deepseek reshapes a raw text only when the start tag
\* opens it.
C10_MatchOnlyLeading ==
    \A c \in Calls :
        (pc[c] = "done" /\ route[c] = "/deepseek" /\ HasRawText(c)
            /\ reply[c][1].kind = "think_say")
        => IsAt(RawText(c), OpenTag, 1)

\* C10 as amended: /deepseek reshapes a raw text exactly when a start tag
\* with a later end tag occurs anywhere in it; think is the trimmed text
\* from the first start tag to the first end tag after it, say the trimmed
\* text after that end tag, and the text before the start tag is in neither.
C10_MatchAtFirstTagAnywhere ==
    \A c \in Calls :
        (pc[c] = "done" /\ route[c] = "/deepseek" /\ HasRawText(c))
        => LET raw == RawText(c)
               i == FirstAt(raw, OpenTag, 1)
               j == IF i = 0 THEN 0 ELSE FirstAt(raw, CloseTag, i + Len(OpenTag))
           IN /\ Len(reply[c]) = 1
              /\ reply[c][1].kind = "think_say" <=> (i # 0 /\ j # 0)
              /\ (i # 0 /\ j # 0)
                    => /\ IsTrimOf(reply[c][1].think, SubSeq(raw, i + Len(OpenTag), j - 1))
                       /\ IsTrimOf(reply[c][1].say, SubSeq(raw, j + Len(CloseTag), Len(raw)))
                       /\ Len(reply[c][1].think) + Len(reply[c][1].say)
                             <= Len(raw) - (i - 1) - Len(OpenTag) - Len(CloseTag)

\* "a<think>a</think> a": the leading "a" is dropped.
C10_Witness ==
    /\ pc[1] = "done" /\ route[1] = "/deepseek" /\ HasRawText(1)
    /\ RawText(1) = <<"a">> \o OpenTag \o <<"a">> \o CloseTag \o <<" ", "a">>
    /\ reply[1] = <<ThinkSayReply(<<"a">>, <<"a">>)>>

====
